---------------------------- MODULE Spec2Model ----------------------------
(***************************************************************************)
(* A model of the permission validation engine and of the compression      *)
(* integrity engine of mpl-core (programs/mpl-core/src/utils.rs).          *)
(*                                                                         *)
(* A storage cell (an account's data) is a sequence of words.  One word    *)
(* stands for one serialized field: a one byte discriminant, a 32 byte     *)
(* address, a length prefix, a 32 byte digest.  Offsets are counted in     *)
(* words from 0, as the program counts bytes from 0.                       *)
(***************************************************************************)
EXTENDS Integers, Sequences, FiniteSets, TLC

(***************************************************************************)
(* Bounds of the model.                                                    *)
(***************************************************************************)
\* Addresses (public keys) are 1..NumAddr.
NumAddr == 2
\* Plugin types are 1..NumPluginTypes, ordered as the PluginType enum is.
NumPluginTypes == 2

Addresses == 1..NumAddr
PluginTypes == 1..NumPluginTypes

(***************************************************************************)
(* Key: the one byte discriminant that starts every serialized structure.  *)
(***************************************************************************)
KeyUninitialized == 0
KeyAsset == 1
KeyHashedAsset == 2
KeyPluginHeader == 3
KeyPluginRegistry == 4
KeyCollection == 5

(***************************************************************************)
(* Authority: the closed set of variants assert_authority matches on.      *)
(***************************************************************************)
AuthNone == [kind |-> "None", address |-> 0]
AuthOwner == [kind |-> "Owner", address |-> 0]
AuthUpdateAuthority == [kind |-> "UpdateAuthority", address |-> 0]
AuthPubkey(a) == [kind |-> "Pubkey", address |-> a]
AuthPermanent(a) == [kind |-> "Permanent", address |-> a]

Authority ==
    {AuthNone, AuthOwner, AuthUpdateAuthority}
        \cup {AuthPubkey(a) : a \in Addresses}
        \cup {AuthPermanent(a) : a \in Addresses}

\* UpdateAuthority of an Asset: None, Address(a) or Collection(a).
UaNone == [kind |-> "None", address |-> 0]
UaAddress(a) == [kind |-> "Address", address |-> a]
UaCollection(a) == [kind |-> "Collection", address |-> a]

UpdateAuthority ==
    {UaNone} \cup {UaAddress(a) : a \in Addresses}
             \cup {UaCollection(a) : a \in Addresses}

\* The variable length payload of a core object (its name).
Names == {<<>>, <<1>>}

Asset ==
    [key : {KeyAsset}, owner : Addresses,
     update_authority : UpdateAuthority, name : Names]

Collection ==
    [key : {KeyCollection}, update_authority : Addresses, name : Names]

\* A plugin: its type discriminant and its payload (one word).
PluginData == {0, 1}
Plugin == [type : PluginTypes, data : PluginData]

(***************************************************************************)
(* Serialization (Borsh): fields in declaration order, an enum as its      *)
(* variant index followed by the variant's fields, a string or a vector    *)
(* as its length followed by its elements.                                 *)
(***************************************************************************)
SerAuthority(a) ==
    CASE a.kind = "None" -> <<0>>
      [] a.kind = "Owner" -> <<1>>
      [] a.kind = "UpdateAuthority" -> <<2>>
      [] a.kind = "Pubkey" -> <<3, a.address>>
      [] a.kind = "Permanent" -> <<4, a.address>>

SerUpdateAuthority(u) ==
    CASE u.kind = "None" -> <<0>>
      [] u.kind = "Address" -> <<1, u.address>>
      [] u.kind = "Collection" -> <<2, u.address>>

SerAsset(a) ==
    <<a.key, a.owner>> \o SerUpdateAuthority(a.update_authority)
        \o <<Len(a.name)>> \o a.name

SerCollection(c) ==
    <<c.key, c.update_authority, Len(c.name)>> \o c.name

SerPlugin(p) == <<p.type, p.data>>

SerRecord(r) == <<r.plugin_type>> \o SerAuthority(r.authority) \o <<r.offset>>

RECURSIVE SerRecords(_)
SerRecords(rs) ==
    IF rs = <<>> THEN <<>> ELSE SerRecord(Head(rs)) \o SerRecords(Tail(rs))

SerPluginHeader(h) == <<h.key, h.plugin_registry_offset>>

SerPluginRegistry(reg) ==
    <<reg.key, Len(reg.registry)>> \o SerRecords(reg.registry)

SerHashedAsset(h) == <<h.key, h.hash>>

(***************************************************************************)
(* Deserialization.  A reader returns [ok, val, next]: the value read at    *)
(* offset off and the offset after it.  Word i of the cell is data[i + 1]. *)
(***************************************************************************)
At(data, off) == data[off + 1]
Has(data, off, n) == off >= 0 /\ off + n <= Len(data)

Bad == [ok |-> FALSE, val |-> 0, next |-> 0]
Got(v, n) == [ok |-> TRUE, val |-> v, next |-> n]

DeAuthority(data, off) ==
    IF ~Has(data, off, 1) THEN Bad
    ELSE LET t == At(data, off) IN
         CASE t = 0 -> Got(AuthNone, off + 1)
           [] t = 1 -> Got(AuthOwner, off + 1)
           [] t = 2 -> Got(AuthUpdateAuthority, off + 1)
           [] t = 3 /\ Has(data, off, 2) -> Got(AuthPubkey(At(data, off + 1)), off + 2)
           [] t = 4 /\ Has(data, off, 2) -> Got(AuthPermanent(At(data, off + 1)), off + 2)
           [] OTHER -> Bad

DeUpdateAuthority(data, off) ==
    IF ~Has(data, off, 1) THEN Bad
    ELSE LET t == At(data, off) IN
         CASE t = 0 -> Got(UaNone, off + 1)
           [] t = 1 /\ Has(data, off, 2) -> Got(UaAddress(At(data, off + 1)), off + 2)
           [] t = 2 /\ Has(data, off, 2) -> Got(UaCollection(At(data, off + 1)), off + 2)
           [] OTHER -> Bad

\* A string: its length, then its characters.
DeName(data, off) ==
    IF ~Has(data, off, 1) THEN Bad
    ELSE LET n == At(data, off) IN
         IF ~Has(data, off + 1, n) THEN Bad
         ELSE Got([i \in 1..n |-> At(data, off + i)], off + 1 + n)

DeAsset(data, off) ==
    IF ~Has(data, off, 2) THEN Bad
    ELSE LET ua == DeUpdateAuthority(data, off + 2) IN
         IF ~ua.ok THEN Bad
         ELSE LET nm == DeName(data, ua.next) IN
              IF ~nm.ok THEN Bad
              ELSE Got([key |-> At(data, off), owner |-> At(data, off + 1),
                        update_authority |-> ua.val, name |-> nm.val], nm.next)

DeCollection(data, off) ==
    IF ~Has(data, off, 2) THEN Bad
    ELSE LET nm == DeName(data, off + 2) IN
         IF ~nm.ok THEN Bad
         ELSE Got([key |-> At(data, off), update_authority |-> At(data, off + 1),
                   name |-> nm.val], nm.next)

DePlugin(data, off) ==
    IF ~Has(data, off, 2) \/ At(data, off) \notin PluginTypes THEN Bad
    ELSE Got([type |-> At(data, off), data |-> At(data, off + 1)], off + 2)

DeRecord(data, off) ==
    IF ~Has(data, off, 1) THEN Bad
    ELSE LET au == DeAuthority(data, off + 1) IN
         IF ~au.ok \/ ~Has(data, au.next, 1) THEN Bad
         ELSE Got([plugin_type |-> At(data, off), offset |-> At(data, au.next),
                   authority |-> au.val], au.next + 1)

RECURSIVE DeRecords(_, _, _)
DeRecords(data, off, n) ==
    IF n = 0 THEN Got(<<>>, off)
    ELSE LET r == DeRecord(data, off) IN
         IF ~r.ok THEN Bad
         ELSE LET rest == DeRecords(data, r.next, n - 1) IN
              IF ~rest.ok THEN Bad ELSE Got(<<r.val>> \o rest.val, rest.next)

DePluginHeader(data, off) ==
    IF ~Has(data, off, 2) THEN Bad
    ELSE Got([key |-> At(data, off), plugin_registry_offset |-> At(data, off + 1)],
             off + 2)

DePluginRegistry(data, off) ==
    IF ~Has(data, off, 2) THEN Bad
    ELSE LET rs == DeRecords(data, off + 2, At(data, off + 1)) IN
         IF ~rs.ok THEN Bad
         ELSE Got([key |-> At(data, off), registry |-> rs.val], rs.next)

DeHashedAsset(data, off) ==
    IF ~Has(data, off, 2) THEN Bad
    ELSE Got([key |-> At(data, off), hash |-> At(data, off + 1)], off + 2)

(***************************************************************************)
(* SolanaAccount::load: read the structure at the offset and require its   *)
(* discriminant; DataBlob::get_size: the length of the serialized value.   *)
(***************************************************************************)
Load(de, key) ==
    IF de.ok /\ de.val.key = key
    THEN [err |-> "", val |-> de.val]
    ELSE [err |-> "DeserializationError", val |-> de.val]

LoadAsset(data, off) == Load(DeAsset(data, off), KeyAsset)
LoadCollection(data, off) == Load(DeCollection(data, off), KeyCollection)
LoadPluginHeader(data, off) == Load(DePluginHeader(data, off), KeyPluginHeader)
LoadPluginRegistry(data, off) == Load(DePluginRegistry(data, off), KeyPluginRegistry)
LoadHashedAsset(data, off) == Load(DeHashedAsset(data, off), KeyHashedAsset)

\* load_key: the discriminant at an offset.
load_key(data, off) ==
    IF Has(data, off, 1) /\ At(data, off) \in KeyUninitialized..KeyCollection
    THEN [err |-> "", val |-> At(data, off)]
    ELSE [err |-> "DeserializationError", val |-> 0]

\* Option<PluginHeader> and Option<PluginRegistry>.
NoHeader == [some |-> FALSE, key |-> 0, plugin_registry_offset |-> 0]
SomeHeader(h) ==
    [some |-> TRUE, key |-> h.key, plugin_registry_offset |-> h.plugin_registry_offset]
NoRegistry == [some |-> FALSE, key |-> 0, registry |-> <<>>]
SomeRegistry(r) == [some |-> TRUE, key |-> r.key, registry |-> r.registry]

\* fetch_core_data::<T>: the core object and, when the cell is longer than the
\* object, the plugin header that follows it and the registry it points to.
FetchCore(core, get_size, data) ==
    IF core.err # ""
    THEN [err |-> core.err, asset |-> core.val, header |-> NoHeader,
          registry |-> NoRegistry]
    ELSE IF get_size # Len(data)
    THEN LET plugin_header == LoadPluginHeader(data, get_size) IN
         IF plugin_header.err # ""
         THEN [err |-> plugin_header.err, asset |-> core.val, header |-> NoHeader,
               registry |-> NoRegistry]
         ELSE LET plugin_registry ==
                      LoadPluginRegistry(data, plugin_header.val.plugin_registry_offset)
              IN [err |-> plugin_registry.err, asset |-> core.val,
                  header |-> SomeHeader(plugin_header.val),
                  registry |-> IF plugin_registry.err = ""
                               THEN SomeRegistry(plugin_registry.val)
                               ELSE NoRegistry]
    ELSE [err |-> "", asset |-> core.val, header |-> NoHeader, registry |-> NoRegistry]

fetch_core_data_asset(data) ==
    LET a == LoadAsset(data, 0) IN
    FetchCore(a, IF a.err = "" THEN Len(SerAsset(a.val)) ELSE 0, data)

fetch_core_data_collection(data) ==
    LET c == LoadCollection(data, 0) IN
    FetchCore(c, IF c.err = "" THEN Len(SerCollection(c.val)) ELSE 0, data)

(***************************************************************************)
(* The plugin region as the program builds it: create_meta_idempotent      *)
(* appends the header and an empty registry after the core object, and     *)
(* initialize_plugin writes a plugin where the registry was and moves the  *)
(* registry, with the new record, behind it.                               *)
(***************************************************************************)
create_meta_idempotent(data, core_size) ==
    IF Len(data) # core_size THEN data
    ELSE data
           \o SerPluginHeader([key |-> KeyPluginHeader,
                               plugin_registry_offset |-> core_size + 2])
           \o SerPluginRegistry([key |-> KeyPluginRegistry, registry |-> <<>>])

initialize_plugin(data, core_size, plugin, authority) ==
    LET header == LoadPluginHeader(data, core_size).val
        old == LoadPluginRegistry(data, header.plugin_registry_offset).val
        at == header.plugin_registry_offset
        record == [plugin_type |-> plugin.type, offset |-> at, authority |-> authority]
        new_offset == at + Len(SerPlugin(plugin))
    IN  SubSeq(data, 1, core_size)
          \o SerPluginHeader([key |-> KeyPluginHeader,
                              plugin_registry_offset |-> new_offset])
          \o SubSeq(data, core_size + 3, at)
          \o SerPlugin(plugin)
          \o SerPluginRegistry([key |-> KeyPluginRegistry,
                                registry |-> Append(old.registry, record)])

\* plugins: a sequence of [plugin, authority], in the order they were added.
RECURSIVE AddPlugins(_, _, _)
AddPlugins(data, core_size, plugins) ==
    IF plugins = <<>> THEN data
    ELSE AddPlugins(initialize_plugin(data, core_size, Head(plugins).plugin,
                                      Head(plugins).authority),
                    core_size, Tail(plugins))

MkCell(core_bytes, plugins) ==
    IF plugins = <<>> THEN core_bytes
    ELSE AddPlugins(create_meta_idempotent(core_bytes, Len(core_bytes)),
                    Len(core_bytes), plugins)

(***************************************************************************)
(* Lifecycle checks.  CheckResult says whether an entity takes part in     *)
(* authorizing an operation; ValidationResult is its verdict for a caller. *)
(***************************************************************************)
CheckResult == {"None", "CanApprove", "CanReject"}
ValidationResult == {"Approved", "Rejected", "Pass", "ForceApproved"}

Participates(check) == check \in {"CanApprove", "CanReject"}

\* The function objects of one operation kind.  A validator is given by the
\* verdict it returns: the core validators one verdict each, the plugin
\* validator one verdict for each plugin type.
NoRecord == [plugin_type |-> 0, offset |-> 0, authority |-> AuthNone]

\* One invocation of a validator: who was asked (the core object when
\* plugin_type is 0), through which registry record, and the verdict.
Invoked(key, plugin_type, record, verdict) ==
    [key |-> key, plugin_type |-> plugin_type, record |-> record, verdict |-> verdict]

\* BTreeMap::insert: the entry of a key already present is replaced.
Insert(map, k, v) == [x \in DOMAIN map \cup {k} |-> IF x = k THEN v ELSE map[x]]

EmptyChecks == [x \in {} |-> 0]

\* PluginRegistry::check_registry: every record whose plugin type takes part
\* is entered under its plugin type, with the key of the cell it came from.
RECURSIVE check_registry(_, _, _, _)
check_registry(registry, key, plugin_check_fp, checks) ==
    IF registry = <<>> THEN checks
    ELSE LET record == Head(registry)
             check == plugin_check_fp[record.plugin_type]
         IN  check_registry(
                 Tail(registry), key, plugin_check_fp,
                 IF check # "None"
                 THEN Insert(checks, record.plugin_type,
                             [key |-> key, check |-> check, record |-> record])
                 ELSE checks)

\* The asset approval overrides the collection approval.
CoreCheckFlipped(asset_check, collection_check) ==
    IF collection_check = "None"
    THEN [key |-> KeyAsset, check |-> asset_check]
    ELSE [key |-> KeyCollection, check |-> collection_check]

CoreCheck(asset_check, collection_check) ==
    IF asset_check = "None"
    THEN [key |-> KeyCollection, check |-> collection_check]
    ELSE [key |-> KeyAsset, check |-> asset_check]

\* The merged check map: the collection's plugins first, then the asset's,
\* which replace the collection's entries of the same plugin type.
MergeChecksAssetFirst(collection_registry, asset_registry, plugin_check_fp) ==
    check_registry(
        collection_registry.registry, KeyCollection, plugin_check_fp,
        check_registry(asset_registry.registry, KeyAsset, plugin_check_fp,
                       EmptyChecks))

MergeChecks(collection_registry, asset_registry, plugin_check_fp) ==
    check_registry(
        asset_registry.registry, KeyAsset, plugin_check_fp,
        check_registry(collection_registry.registry, KeyCollection, plugin_check_fp,
                       EmptyChecks))

\* validate_plugin_checks: the entries of the merged map that came from the
\* cell `key`, in the map's order (ascending plugin type).  Returns the
\* approval of this group, or the error that ends the call.
RECURSIVE ValidateEntries(_, _, _, _, _, _)
ValidateEntries(t, key, checks, data, plugin_validate_fp, acc) ==
    IF t > NumPluginTypes \/ acc.err # "" THEN acc
    ELSE IF t \notin DOMAIN checks
            \/ checks[t].key # key
            \/ ~Participates(checks[t].check)
    THEN ValidateEntries(t + 1, key, checks, data, plugin_validate_fp, acc)
    ELSE LET plugin == DePlugin(data, checks[t].record.offset)
             result == plugin_validate_fp[t]
             trace == Append(acc.trace, Invoked(key, t, checks[t].record, result))
         IN  IF ~plugin.ok
             THEN [acc EXCEPT !.err = "DeserializationError"]
             ELSE ValidateEntries(
                      t + 1, key, checks, data, plugin_validate_fp,
                      CASE result = "Rejected" ->
                               [err |-> "InvalidAuthority", approved |-> acc.approved,
                                trace |-> trace]
                        [] result \in {"Approved", "ForceApproved"} ->
                               [err |-> "", approved |-> TRUE, trace |-> trace]
                        [] OTHER ->
                               [err |-> "", approved |-> acc.approved, trace |-> trace])

validate_plugin_checks(key, checks, data, plugin_validate_fp, trace) ==
    ValidateEntries(1, key, checks, data, plugin_validate_fp,
                    [err |-> "", approved |-> FALSE, trace |-> trace])

\* The function objects handed to validate_asset_permissions.
Fps(asset_check, collection_check, plugin_check, asset_validate, collection_validate, plugin_validate) ==
    [asset_check_fp |-> asset_check, collection_check_fp |-> collection_check,
     plugin_check_fp |-> plugin_check, asset_validate_fp |-> asset_validate,
     collection_validate_fp |-> collection_validate,
     plugin_validate_fp |-> plugin_validate]

Failed(err, core_check, checks, trace) ==
    [err |-> err, ret |-> <<>>, core_check |-> core_check, checks |-> checks,
     trace |-> trace]

\* The core validation: the core validator named by the core check is asked
\* when the core check takes part, and approves only with Approved.
NoCore == [key |-> KeyUninitialized, check |-> "None"]

CoreValidationWithoutCollection(core_check, has_collection, collection_data, asset_data, fp) ==
    IF core_check.key = KeyAsset /\ Participates(core_check.check)
    THEN [err |-> "",
          approved |-> fp.asset_validate_fp = "Approved",
          trace |-> <<Invoked(KeyAsset, 0, NoRecord, fp.asset_validate_fp)>>]
    ELSE IF core_check.key = KeyCollection /\ Participates(core_check.check)
            /\ has_collection
    THEN [err |-> "",
          approved |-> fp.collection_validate_fp = "Approved",
          trace |-> <<Invoked(KeyCollection, 0, NoRecord, fp.collection_validate_fp)>>]
    ELSE [err |-> "", approved |-> FALSE, trace |-> <<>>]

CoreValidation(core_check, has_collection, collection_data, asset_data, fp) ==
    IF ~(core_check.key \in {KeyAsset, KeyCollection} /\ Participates(core_check.check))
    THEN [err |-> "", approved |-> FALSE, trace |-> <<>>]
    ELSE IF core_check.key = KeyCollection
    THEN IF ~has_collection
         THEN [err |-> "InvalidCollection", approved |-> FALSE, trace |-> <<>>]
         ELSE IF LoadCollection(collection_data, 0).err # ""
         THEN [err |-> "DeserializationError", approved |-> FALSE, trace |-> <<>>]
         ELSE [err |-> "",
               approved |-> fp.collection_validate_fp = "Approved",
               trace |-> <<Invoked(KeyCollection, 0, NoRecord,
                                   fp.collection_validate_fp)>>]
    ELSE IF core_check.key = KeyAsset
    THEN IF LoadAsset(asset_data, 0).err # ""
         THEN [err |-> "DeserializationError", approved |-> FALSE, trace |-> <<>>]
         ELSE [err |-> "",
               approved |-> fp.asset_validate_fp = "Approved",
               trace |-> <<Invoked(KeyAsset, 0, NoRecord, fp.asset_validate_fp)>>]
    ELSE [err |-> "IncorrectAccount", approved |-> FALSE, trace |-> <<>>]

\* The end of both variants: without an approval the call fails, with one it
\* returns what fetch_core_data loaded.
FinishAlways(approved, fetched, core_check, checks, trace) ==
    [err |-> "", ret |-> <<fetched.asset, fetched.header, fetched.registry>>,
     core_check |-> core_check, checks |-> checks, trace |-> trace]

Finish(approved, fetched, core_check, checks, trace) ==
    IF ~approved
    THEN Failed("InvalidAuthority", core_check, checks, trace)
    ELSE [err |-> "", ret |-> <<fetched.asset, fetched.header, fetched.registry>>,
          core_check |-> core_check, checks |-> checks, trace |-> trace]

\* validate_asset_permissions.  has_collection says whether the optional
\* parent collection cell is supplied.  The new owner is only handed on to the
\* plugin validator, whose verdict is an input here.  The call is written as
\* its steps, each handing what it computed to the next.
AfterAssetPluginsForgetting(fetched, core_check, checks, earlier, a) ==
    IF a.err # "" THEN Failed(a.err, core_check, checks, a.trace)
    ELSE Finish(a.approved, fetched, core_check, checks, a.trace)

AfterAssetPlugins(fetched, core_check, checks, earlier, a) ==
    IF a.err # "" THEN Failed(a.err, core_check, checks, a.trace)
    ELSE Finish(a.approved \/ earlier, fetched, core_check, checks, a.trace)

AfterCollectionPlugins(fetched, core_check, checks, earlier, c, asset_data, fp) ==
    IF c.err # "" THEN Failed(c.err, core_check, checks, c.trace)
    ELSE AfterAssetPlugins(
             fetched, core_check, checks, c.approved \/ earlier,
             validate_plugin_checks(KeyAsset, checks, asset_data,
                                    fp.plugin_validate_fp, c.trace))

AfterCoreValidation(fetched, core_check, checks, core, asset_data, collection_data, fp) ==
    IF core.err # "" THEN Failed(core.err, core_check, checks, core.trace)
    ELSE AfterCollectionPlugins(
             fetched, core_check, checks, core.approved,
             validate_plugin_checks(KeyCollection, checks, collection_data,
                                    fp.plugin_validate_fp, core.trace),
             asset_data, fp)

AfterFetch(fetched, core_check, collection, asset_data, has_collection, collection_data, fp) ==
    IF fetched.err # "" THEN Failed(fetched.err, NoCore, EmptyChecks, <<>>)
    ELSE IF collection.err # ""
    THEN Failed(collection.err, core_check, EmptyChecks, <<>>)
    ELSE AfterCoreValidation(
             fetched, core_check,
             MergeChecks(collection.registry, fetched.registry, fp.plugin_check_fp),
             CoreValidation(core_check, has_collection, collection_data,
                            asset_data, fp),
             asset_data, collection_data, fp)

\* The call from its two fetch_core_data results on.
NotFetched == [err |-> "", registry |-> NoRegistry]

AssetPermissionsOf(asset, collection, asset_data, has_collection, collection_data, fp) ==
    AfterFetch(asset, CoreCheck(fp.asset_check_fp, fp.collection_check_fp),
               collection, asset_data, has_collection, collection_data, fp)

validate_asset_permissions(asset_data, has_collection, collection_data, fp) ==
    AssetPermissionsOf(fetch_core_data_asset(asset_data),
                       IF has_collection
                       THEN fetch_core_data_collection(collection_data)
                       ELSE NotFetched,
                       asset_data, has_collection, collection_data, fp)

\* The loop of validate_collection_permissions over the collection's own
\* registry, in the registry's order.
RECURSIVE CollectionPlugins(_, _, _, _)
CollectionPlugins(registry, data, fp, acc) ==
    IF registry = <<>> \/ acc.err # "" THEN acc
    ELSE LET record == Head(registry) IN
         IF ~Participates(fp.plugin_check_fp[record.plugin_type])
         THEN CollectionPlugins(Tail(registry), data, fp, acc)
         ELSE LET plugin == DePlugin(data, record.offset)
                  result == fp.plugin_validate_fp[record.plugin_type]
                  trace == Append(acc.trace,
                                  Invoked(KeyCollection, record.plugin_type, record,
                                          result))
              IN  IF ~plugin.ok
                  THEN [acc EXCEPT !.err = "DeserializationError"]
                  ELSE CollectionPlugins(
                           Tail(registry), data, fp,
                           IF result = "Rejected"
                           THEN [err |-> "InvalidAuthority", approved |-> acc.approved,
                                 trace |-> trace]
                           ELSE IF result = "Approved"
                           THEN [err |-> "", approved |-> TRUE, trace |-> trace]
                           ELSE [err |-> "", approved |-> acc.approved,
                                 trace |-> trace])

\* validate_collection_permissions.  Its match on the core verdict has the
\* arms Approved, Rejected and Pass.
CollectionCoreVerdicts == {"Approved", "Rejected", "Pass"}

CollectionCore(fp) ==
    IF Participates(fp.collection_check_fp)
    THEN [err |-> IF fp.collection_validate_fp = "Rejected"
                  THEN "InvalidAuthority" ELSE "",
          approved |-> fp.collection_validate_fp = "Approved",
          trace |-> <<Invoked(KeyCollection, 0, NoRecord, fp.collection_validate_fp)>>]
    ELSE [err |-> "", approved |-> FALSE, trace |-> <<>>]

AfterCollectionLoop(fetched, core_check, p) ==
    IF p.err # "" THEN Failed(p.err, core_check, EmptyChecks, p.trace)
    ELSE Finish(p.approved, fetched, core_check, EmptyChecks, p.trace)

AfterCollectionFetch(fetched, core_check, core, collection_data, fp) ==
    IF fetched.err # "" THEN Failed(fetched.err, NoCore, EmptyChecks, <<>>)
    ELSE IF core.err # "" THEN Failed(core.err, core_check, EmptyChecks, core.trace)
    ELSE AfterCollectionLoop(
             fetched, core_check,
             CollectionPlugins(fetched.registry.registry, collection_data, fp, core))

CollectionPermissionsOf(collection, collection_data, fp) ==
    AfterCollectionFetch(collection,
                         [key |-> KeyCollection, check |-> fp.collection_check_fp],
                         CollectionCore(fp), collection_data, fp)

validate_collection_permissions(collection_data, fp) ==
    CollectionPermissionsOf(fetch_core_data_collection(collection_data),
                            collection_data, fp)

(***************************************************************************)
(* Hashing.  Keccak is taken to be collision free: a digest is an          *)
(* injective numbering of the values hashed, small enough to be one word.  *)
(***************************************************************************)
AuthorityCode(a) ==
    CASE a.kind = "None" -> 0
      [] a.kind = "Owner" -> 1
      [] a.kind = "UpdateAuthority" -> 2
      [] a.kind = "Pubkey" -> 2 + a.address
      [] a.kind = "Permanent" -> 2 + NumAddr + a.address
AuthorityCodes == 3 + 2 * NumAddr

UpdateAuthorityCode(u) ==
    CASE u.kind = "None" -> 0
      [] u.kind = "Address" -> u.address
      [] u.kind = "Collection" -> NumAddr + u.address
UpdateAuthorityCodes == 1 + 2 * NumAddr

NameCode(name) == IF name = <<>> THEN 0 ELSE name[1]
NameCodes == Cardinality(Names)

\* Asset::hash: the digest of the serialized asset.
AssetHashes == NumAddr * UpdateAuthorityCodes * NameCodes
HashAsset(asset) ==
    (asset.owner - 1)
        + NumAddr * (UpdateAuthorityCode(asset.update_authority)
                     + UpdateAuthorityCodes * NameCode(asset.name))

\* HashablePluginSchema::hash: the digest of {index, authority, plugin}.  A
\* proof holds at most NumPluginTypes plugins, with indices below that.
PluginHashes == NumPluginTypes * AuthorityCodes * NumPluginTypes * Cardinality(PluginData)
HashPlugin(schema) ==
    schema.index
        + NumPluginTypes * (AuthorityCode(schema.authority)
            + AuthorityCodes * ((schema.plugin.type - 1)
                + NumPluginTypes * schema.plugin.data))

\* HashedAssetSchema::hash: the digest of {asset_hash, plugin_hashes}.
RECURSIVE HashList(_)
HashList(hashes) ==
    IF hashes = <<>> THEN 0
    ELSE (Head(hashes) + 1) + (PluginHashes + 1) * HashList(Tail(hashes))

HashSchema(schema) == schema.asset_hash + AssetHashes * HashList(schema.plugin_hashes)

(***************************************************************************)
(* Compression proofs.                                                     *)
(***************************************************************************)
\* CompressionProof::new and Asset::from(CompressionProof).
NewCompressionProof(asset, plugins) ==
    [owner |-> asset.owner, update_authority |-> asset.update_authority,
     name |-> asset.name, plugins |-> plugins]

AssetFromProof(compression_proof) ==
    [key |-> KeyAsset, owner |-> compression_proof.owner,
     update_authority |-> compression_proof.update_authority,
     name |-> compression_proof.name]

\* Vec::sort_by is stable: equal elements keep their order.
RECURSIVE InsertByIndex(_, _)
InsertByIndex(x, sorted) ==
    IF sorted = <<>> THEN <<x>>
    ELSE IF x.index < Head(sorted).index THEN <<x>> \o sorted
    ELSE <<Head(sorted)>> \o InsertByIndex(x, Tail(sorted))

RECURSIVE SortByIndexFrom(_, _)
SortByIndexFrom(plugins, sorted) ==
    IF plugins = <<>> THEN sorted
    ELSE SortByIndexFrom(Tail(plugins), InsertByIndex(Head(plugins), sorted))

\* sort_by(HashablePluginSchema::compare_indeces)
NoSort(plugins) == plugins
SortByIndex(plugins) == SortByIndexFrom(plugins, <<>>)

RECURSIVE InsertByOffset(_, _)
InsertByOffset(x, sorted) ==
    IF sorted = <<>> THEN <<x>>
    ELSE IF x.offset < Head(sorted).offset THEN <<x>> \o sorted
    ELSE <<Head(sorted)>> \o InsertByOffset(x, Tail(sorted))

RECURSIVE SortByOffsetFrom(_, _)
SortByOffsetFrom(records, sorted) ==
    IF records = <<>> THEN sorted
    ELSE SortByOffsetFrom(Tail(records), InsertByOffset(Head(records), sorted))

\* sort_by(RegistryRecord::compare_offsets)
SortByOffset(records) == SortByOffsetFrom(records, <<>>)

HashPlugins(plugins) == [i \in DOMAIN plugins |-> HashPlugin(plugins[i])]

\* The digest verify_proof recomputes from a proof.
ProofDigest(compression_proof) ==
    HashSchema([asset_hash |-> HashAsset(AssetFromProof(compression_proof)),
                plugin_hashes |-> HashPlugins(SortByIndex(compression_proof.plugins))])

\* verify_proof: the digest recomputed from the proof, its plugins sorted by
\* index, against the digest the cell holds.
VerifyAgainstAnything(current, compression_proof) ==
    IF current.err # ""
    THEN [err |-> current.err, asset |-> <<>>, plugins |-> <<>>,
          digest |-> ProofDigest(compression_proof)]
    ELSE [err |-> "", asset |-> AssetFromProof(compression_proof),
          plugins |-> SortByIndex(compression_proof.plugins),
          digest |-> ProofDigest(compression_proof)]

VerifyAgainst(current, compression_proof) ==
    IF current.err # ""
    THEN [err |-> current.err, asset |-> <<>>, plugins |-> <<>>,
          digest |-> ProofDigest(compression_proof)]
    ELSE IF ProofDigest(compression_proof) # current.val.hash
    THEN [err |-> "IncorrectAssetHash", asset |-> <<>>, plugins |-> <<>>,
          digest |-> ProofDigest(compression_proof)]
    ELSE [err |-> "", asset |-> AssetFromProof(compression_proof),
          plugins |-> SortByIndex(compression_proof.plugins),
          digest |-> ProofDigest(compression_proof)]

verify_proof(hashed_asset_data, compression_proof) ==
    VerifyAgainst(LoadHashedAsset(hashed_asset_data, 0), compression_proof)

(***************************************************************************)
(* Accounts: a cell's words and deposit, and the funding participant's     *)
(* balance.  An account state is [data, lamports, payer, err].             *)
(***************************************************************************)
\* Rent::minimum_balance: linear in the size, with a fixed overhead.
minimum_balance(size) == (128 + size) * 2

\* AccountInfo::realloc(new_size, false): the words kept, the new ones not
\* initialized (any of `fill`).
Realloc(data, new_size, fill) ==
    [i \in 1..new_size |-> IF i <= Len(data) THEN data[i] ELSE fill]

\* sol_memcpy(dst, src, n)
sol_memcpy(dst, src, n) ==
    [i \in 1..Len(dst) |-> IF i <= n THEN src[i] ELSE dst[i]]

\* resize_or_reallocate_account
ResizeWithoutRefund(acc, new_size, fill) ==
    LET lamports_diff == minimum_balance(new_size) - minimum_balance(Len(acc.data)) IN
    IF acc.err # "" THEN acc
    ELSE IF lamports_diff < 0
    THEN [acc EXCEPT !.data = Realloc(acc.data, new_size, fill)]
    ELSE IF acc.payer < lamports_diff
    THEN [acc EXCEPT !.err = "InsufficientFunds"]
    ELSE [data |-> Realloc(acc.data, new_size, fill),
          lamports |-> acc.lamports + lamports_diff,
          payer |-> acc.payer - lamports_diff, err |-> ""]

resize_or_reallocate_account(acc, new_size, fill) ==
    LET new_minimum_balance == minimum_balance(new_size)
        current_minimum_balance == minimum_balance(Len(acc.data))
    IN
    IF acc.err # "" THEN acc
    ELSE IF new_minimum_balance >= current_minimum_balance
    THEN LET lamports_diff == new_minimum_balance - current_minimum_balance IN
         IF acc.payer < lamports_diff
         THEN [acc EXCEPT !.err = "InsufficientFunds"]
         ELSE [data |-> Realloc(acc.data, new_size, fill),
               lamports |-> acc.lamports + lamports_diff,
               payer |-> acc.payer - lamports_diff, err |-> ""]
    ELSE LET lamports_diff == current_minimum_balance - new_minimum_balance IN
         [data |-> Realloc(acc.data, new_size, fill),
          lamports |-> acc.lamports - lamports_diff,
          payer |-> acc.payer + lamports_diff, err |-> ""]

\* Writing a serialized value over the start of a resized cell.
WriteAtStart(acc, serialized_data) ==
    IF acc.err # "" THEN acc
    ELSE [acc EXCEPT !.data = sol_memcpy(acc.data, serialized_data,
                                         Len(serialized_data))]

\* The plugins of a registry as compress reads them: record i of the sorted
\* registry, with the plugin deserialized at its offset, under index i - 1.
SchemaOf(data, records) ==
    [i \in DOMAIN records |->
        [index |-> i - 1, authority |-> records[i].authority,
         plugin |-> DePlugin(data, records[i].offset).val]]

SchemasReadable(data, records) ==
    \A i \in DOMAIN records : DePlugin(data, records[i].offset).ok

\* compress_into_account_space: returns the proof, and puts the hashed asset
\* in the cell.
CompressWithoutPluginHashes(asset, plugins, readable, acc, fill) ==
    IF ~readable
    THEN [acc |-> [acc EXCEPT !.err = "DeserializationError"],
          proof |-> NewCompressionProof(asset, <<>>)]
    ELSE [acc |->
              WriteAtStart(
                  resize_or_reallocate_account(acc, Len(SerHashedAsset(
                      [key |-> KeyHashedAsset, hash |-> 0])), fill),
                  SerHashedAsset(
                      [key |-> KeyHashedAsset,
                       hash |-> HashSchema([asset_hash |-> HashAsset(asset),
                                            plugin_hashes |-> <<>>])])),
          proof |-> NewCompressionProof(asset, plugins)]

CompressWith(asset, plugins, readable, acc, fill) ==
    IF ~readable
    THEN [acc |-> [acc EXCEPT !.err = "DeserializationError"],
          proof |-> NewCompressionProof(asset, <<>>)]
    ELSE [acc |->
              WriteAtStart(
                  resize_or_reallocate_account(acc, Len(SerHashedAsset(
                      [key |-> KeyHashedAsset, hash |-> 0])), fill),
                  SerHashedAsset(
                      [key |-> KeyHashedAsset,
                       hash |-> HashSchema([asset_hash |-> HashAsset(asset),
                                            plugin_hashes |-> HashPlugins(plugins)])])),
          proof |-> NewCompressionProof(asset, plugins)]

compress_into_account_space(asset, plugin_registry, acc, fill) ==
    CompressWith(asset,
                 SchemaOf(acc.data, SortByOffset(plugin_registry.registry)),
                 SchemasReadable(acc.data, plugin_registry.registry),
                 acc, fill)

\* The plugin region rebuilt from a proof: each plugin is written with its
\* authority, in the order given, the cell growing (and the deposit with it)
\* at each step.
RECURSIVE InitializePlugins(_, _, _, _)
InitializePlugins(acc, core_size, plugins, fill) ==
    IF plugins = <<>> \/ acc.err # "" THEN acc
    ELSE InitializePlugins(
             WriteAtStart(
                 resize_or_reallocate_account(
                     acc, Len(acc.data) + Len(SerPlugin(Head(plugins).plugin))
                              + Len(SerRecord([plugin_type |-> 0, offset |-> 0,
                                               authority |-> Head(plugins).authority])),
                     fill),
                 initialize_plugin(acc.data, core_size, Head(plugins).plugin,
                                   Head(plugins).authority)),
             core_size, Tail(plugins), fill)

CreateMeta(acc, core_size, fill) ==
    WriteAtStart(
        resize_or_reallocate_account(
            acc, Len(create_meta_idempotent(acc.data, core_size)), fill),
        create_meta_idempotent(acc.data, core_size))

\* rebuild_account_state_from_proof_data
RebuildWithoutCopy(serialized_data, plugins, acc, fill) ==
    resize_or_reallocate_account(acc, Len(serialized_data), fill)

RebuildWith(serialized_data, plugins, acc, fill) ==
    IF plugins = <<>>
    THEN WriteAtStart(
             resize_or_reallocate_account(acc, Len(serialized_data), fill),
             serialized_data)
    ELSE InitializePlugins(
             CreateMeta(
                 WriteAtStart(
                     resize_or_reallocate_account(acc, Len(serialized_data), fill),
                     serialized_data),
                 Len(serialized_data), fill),
             Len(serialized_data), plugins, fill)

rebuild_account_state_from_proof_data(asset, plugins, acc, fill) ==
    RebuildWith(SerAsset(asset), plugins, acc, fill)

(***************************************************************************)
(* State.                                                                  *)
(***************************************************************************)
VARIABLES
    asset_data,        \* the asset cell's words
    collection_data,   \* the parent collection cell's words
    asset_lamports,    \* the asset cell's deposit
    payer_lamports,    \* the funding participant's balance
    proof,             \* the CompressionProof that compress returned
    supplied,          \* the CompressionProof the caller supplies
    pre_data,          \* the asset cell's words when compress was called
    call               \* the last call: its inputs and what it returned

vars ==
    <<asset_data, collection_data, asset_lamports, payer_lamports, proof,
      supplied, pre_data, call>>

NoCall == [op |-> "none"]
NoProof == [some |-> FALSE]

\* Sequences of distinct plugin types: a registry lists its plugins in the
\* order they were added.  AscendingTypeLists adds them by ascending type,
\* TypeLists by ascending or by descending type.
AscendingTypeLists ==
    {s \in UNION {[1..n -> PluginTypes] : n \in 0..NumPluginTypes} :
        \A i, j \in DOMAIN s : i < j => s[i] < s[j]}

TypeLists ==
    AscendingTypeLists \cup
    {s \in UNION {[1..n -> PluginTypes] : n \in 0..NumPluginTypes} :
        \A i, j \in DOMAIN s : i < j => s[i] > s[j]}

\* The plugin types a cell's registry holds.
RegisteredTypes(fetched) ==
    {fetched.registry.registry[i].plugin_type : i \in DOMAIN fetched.registry.registry}

(***************************************************************************)
(* The permission engine's scenarios: an asset and its parent collection,  *)
(* each with any set of plugins added in any order.  The asset's plugins   *)
(* are under the Owner authority, the collection's under UpdateAuthority.  *)
(***************************************************************************)
PermAsset ==
    [key |-> KeyAsset, owner |-> 1, update_authority |-> UaCollection(NumAddr),
     name |-> <<>>]
PermCollection ==
    [key |-> KeyCollection, update_authority |-> NumAddr, name |-> <<1>>]

PermPlugins(types, data, authority) ==
    [i \in DOMAIN types |->
        [plugin |-> [type |-> types[i], data |-> data], authority |-> authority]]

\* An optional cell the caller does not supply.
NoCell == <<>>
Supplied(data) == data # NoCell

\* The asset's plugins were added by ascending type; the collection's by
\* ascending type or, under an asset without plugins, in any of TypeLists.
PermAssetCell(ts) == MkCell(SerAsset(PermAsset), PermPlugins(ts, 0, AuthOwner))
PermCollectionCell(ts) ==
    MkCell(SerCollection(PermCollection), PermPlugins(ts, 1, AuthUpdateAuthority))

InitPerm ==
    /\ \/ /\ asset_data \in {PermAssetCell(ts) : ts \in AscendingTypeLists}
          /\ collection_data \in
                 {NoCell} \cup {PermCollectionCell(ts) : ts \in AscendingTypeLists}
       \/ /\ asset_data = PermAssetCell(<<>>)
          /\ collection_data \in {PermCollectionCell(ts) : ts \in TypeLists}
    /\ asset_lamports = 0
    /\ payer_lamports = 0
    /\ proof = NoProof
    /\ supplied = NoProof
    /\ pre_data = <<>>
    /\ call = NoCall

\* A plugin check function that says None for the types outside `present`,
\* and a plugin validator that is asked only about the types that take part.
Total(f, default) == [t \in PluginTypes |-> IF t \in DOMAIN f THEN f[t] ELSE default]

\* The calls validate_asset_permissions can get for cells whose registries
\* hold the plugin types `present`.  What fetch_core_data reads from the two
\* cells is the same for all of them: it is read once, and kept in the call.
AssetCalls(has_collection, present, asset, collection) ==
       \E asset_check \in CheckResult, collection_check \in CheckResult :
       \E plugin_check \in [present -> CheckResult] :
       \E plugin_validate \in
              [{t \in present : Participates(plugin_check[t])} -> ValidationResult] :
       \E asset_validate \in
              (IF asset_check # "None" THEN ValidationResult ELSE {"Pass"}) :
       \E collection_validate \in
              (IF asset_check = "None" /\ collection_check # "None"
               THEN ValidationResult ELSE {"Pass"}) :
       LET fp == Fps(asset_check, collection_check, Total(plugin_check, "None"),
                     asset_validate, collection_validate,
                     Total(plugin_validate, "Pass"))
       IN call' = [op |-> "validate_asset_permissions",
                   has_collection |-> has_collection, fp |-> fp,
                   fetched |-> [asset |-> asset, collection |-> collection],
                   out |-> AssetPermissionsOf(asset, collection, asset_data,
                                              has_collection, collection_data, fp)]

ValidateAssetPermissions ==
    /\ call.op = "none"
    /\ LoadAsset(asset_data, 0).err = ""
    /\ AssetCalls(Supplied(collection_data),
                  RegisteredTypes(fetch_core_data_asset(asset_data))
                     \cup (IF Supplied(collection_data)
                           THEN RegisteredTypes(
                                    fetch_core_data_collection(collection_data))
                           ELSE {}),
                  fetch_core_data_asset(asset_data),
                  IF Supplied(collection_data)
                  THEN fetch_core_data_collection(collection_data)
                  ELSE NotFetched)
    /\ UNCHANGED <<asset_data, collection_data, asset_lamports, payer_lamports,
                   proof, supplied, pre_data>>

CollectionCalls(present, collection) ==
       \E collection_check \in CheckResult :
       \E plugin_check \in [present -> CheckResult] :
       \E plugin_validate \in
              [{t \in present : Participates(plugin_check[t])} -> ValidationResult] :
       \E collection_validate \in
              (IF collection_check # "None" THEN CollectionCoreVerdicts ELSE {"Pass"}) :
       LET fp == Fps("None", collection_check, Total(plugin_check, "None"),
                     "Pass", collection_validate, Total(plugin_validate, "Pass"))
       IN call' = [op |-> "validate_collection_permissions",
                   has_collection |-> TRUE, fp |-> fp,
                   fetched |-> [collection |-> collection],
                   out |-> CollectionPermissionsOf(collection, collection_data, fp)]

ValidateCollectionPermissions ==
    /\ call.op = "none"
    /\ LoadCollection(collection_data, 0).err = ""
    /\ CollectionCalls(RegisteredTypes(fetch_core_data_collection(collection_data)),
                       fetch_core_data_collection(collection_data))
    /\ UNCHANGED <<asset_data, collection_data, asset_lamports, payer_lamports,
                   proof, supplied, pre_data>>

NextPerm == ValidateAssetPermissions \/ ValidateCollectionPermissions

SpecPerm == InitPerm /\ [][NextPerm]_vars

(***************************************************************************)
(* The compression engine's scenarios: an asset cell, with or without      *)
(* plugins, is compressed; a caller then supplies a proof, which is        *)
(* verified and, when it verifies, used to rebuild the cell.               *)
(***************************************************************************)
\* The authorities the scenarios' plugins are under.
CompAuthorities == {AuthUpdateAuthority, AuthPermanent(1)}

\* The assets that carry plugins in the scenarios.
CompAssetsWithPlugins ==
    {[key |-> KeyAsset, owner |-> 1, update_authority |-> UaNone, name |-> <<>>],
     [key |-> KeyAsset, owner |-> NumAddr, update_authority |-> UaCollection(1),
      name |-> <<1>>]}

CompPluginLists ==
    UNION {
        {[i \in DOMAIN ts |->
             [plugin |-> [type |-> ts[i], data |-> ds[i]], authority |-> as[i]]] :
           ds \in [DOMAIN ts -> PluginData], as \in [DOMAIN ts -> CompAuthorities]} :
        ts \in TypeLists}

\* What a word the program did not initialize may hold.
FillWords == {0, 6}

Account(data, lamports, payer) ==
    [data |-> data, lamports |-> lamports, payer |-> payer, err |-> ""]

InitComp ==
    /\ \E asset \in Asset, plugins \in CompPluginLists :
          /\ plugins = <<>> \/ asset \in CompAssetsWithPlugins
          /\ asset_data = MkCell(SerAsset(asset), plugins)
    /\ asset_lamports = minimum_balance(Len(asset_data))
    /\ payer_lamports = 0
    /\ collection_data = NoCell
    /\ proof = NoProof
    /\ supplied = NoProof
    /\ pre_data = <<>>
    /\ call = NoCall

\* The compress instruction: the asset and registry it fetched are handed to
\* compress_into_account_space.  A failed call changes nothing.
CompressResult(fetched, fill) ==
    compress_into_account_space(
        fetched.asset, fetched.registry,
        Account(asset_data, asset_lamports, payer_lamports), fill)

Compressed(r) ==
    /\ call' = [op |-> "compress_into_account_space",
                out |-> [err |-> r.acc.err, proof |-> r.proof]]
    /\ IF r.acc.err = ""
       THEN /\ asset_data' = r.acc.data
            /\ asset_lamports' = r.acc.lamports
            /\ payer_lamports' = r.acc.payer
            /\ proof' = [some |-> TRUE, val |-> r.proof]
            /\ pre_data' = asset_data
       ELSE UNCHANGED <<asset_data, asset_lamports, payer_lamports, proof, pre_data>>

Compress ==
    /\ call.op = "none"
    /\ fetch_core_data_asset(asset_data).err = ""
    /\ \E fill \in FillWords :
          Compressed(CompressResult(fetch_core_data_asset(asset_data), fill))
    /\ UNCHANGED <<collection_data, supplied>>

\* The proofs a caller may supply: the proof compress returned, with its
\* plugins in any order, and with at most one field changed or one plugin
\* left out.
Bijections(S) == {f \in [S -> S] : \A i, j \in S : f[i] = f[j] => i = j}
PermutationsOf(seq) ==
    {[i \in DOMAIN seq |-> seq[f[i]]] : f \in Bijections(DOMAIN seq)}

Without(seq, k) ==
    [i \in 1..(Len(seq) - 1) |-> IF i < k THEN seq[i] ELSE seq[i + 1]]

Edits(p) ==
    {[p EXCEPT !.owner = a] : a \in Addresses \ {p.owner}}
      \cup {[p EXCEPT !.update_authority = u] :
               u \in UpdateAuthority \ {p.update_authority}}
      \cup {[p EXCEPT !.name = n] : n \in Names \ {p.name}}
      \cup UNION {
             {[p EXCEPT !.plugins[i].index = k] :
                 k \in (0..(NumPluginTypes - 1)) \ {p.plugins[i].index}}
               \cup {[p EXCEPT !.plugins[i].authority = a] :
                        a \in Authority \ {p.plugins[i].authority}}
               \cup {[p EXCEPT !.plugins[i].plugin.data = d] :
                        d \in PluginData \ {p.plugins[i].plugin.data}}
               \cup {[p EXCEPT !.plugins[i].plugin.type = t] :
                        t \in PluginTypes \ {p.plugins[i].plugin.type}}
               \cup {[p EXCEPT !.plugins = Without(p.plugins, i)]} :
             i \in DOMAIN p.plugins}

Reordered(p) == {[p EXCEPT !.plugins = q] : q \in PermutationsOf(p.plugins)}

CallerProofs(p) == Reordered(p) \cup UNION {Edits(q) : q \in Reordered(p)}

\* verify_proof on the compressed cell with a proof the caller supplies.
VerifyProof ==
    /\ call.op = "compress_into_account_space"
    /\ call.out.err = ""
    /\ \E p \in CallerProofs(proof.val) :
          /\ supplied' = [some |-> TRUE, val |-> p]
          /\ call' = [op |-> "verify_proof", out |-> verify_proof(asset_data, p)]
    /\ UNCHANGED <<asset_data, collection_data, asset_lamports, payer_lamports,
                   proof, pre_data>>

\* The decompress instruction: what verify_proof returned is handed to
\* rebuild_account_state_from_proof_data.  A failed call changes nothing.
Rebuilt(acc) ==
    /\ call' = [op |-> "rebuild_account_state_from_proof_data",
                out |-> [err |-> acc.err]]
    /\ IF acc.err = ""
       THEN /\ asset_data' = acc.data
            /\ asset_lamports' = acc.lamports
            /\ payer_lamports' = acc.payer
       ELSE UNCHANGED <<asset_data, asset_lamports, payer_lamports>>

Rebuild ==
    /\ call.op = "verify_proof"
    /\ call.out.err = ""
    /\ \E fill \in FillWords :
          Rebuilt(rebuild_account_state_from_proof_data(
                      call.out.asset, call.out.plugins,
                      Account(asset_data, asset_lamports, payer_lamports), fill))
    /\ UNCHANGED <<collection_data, proof, supplied, pre_data>>

NextComp == Compress \/ VerifyProof \/ Rebuild

SpecComp == InitComp /\ [][NextComp]_vars

(***************************************************************************)
(* Properties of the permission engine.                                    *)
(***************************************************************************)
IsAssetCall == call.op = "validate_asset_permissions"
IsCollectionCall == call.op = "validate_collection_permissions"
IsPermissionCall == IsAssetCall \/ IsCollectionCall

\* The verdicts the validators returned during the last call.
Returned == {call.out.trace[i].verdict : i \in DOMAIN call.out.trace}

\* The plugin types the call found registered in the cells.
AssetTypes == RegisteredTypes(call.fetched.asset)
CollectionTypes == RegisteredTypes(call.fetched.collection)

\* The validators that take part in the last call: the core validator, and
\* one plugin validator for each plugin type that is registered and checked.
CoreTakesPart ==
    IF IsAssetCall
    THEN call.fp.asset_check_fp # "None" \/ call.fp.collection_check_fp # "None"
    ELSE call.fp.collection_check_fp # "None"

PluginsTakingPart ==
    {t \in (IF IsAssetCall THEN AssetTypes \cup CollectionTypes ELSE CollectionTypes) :
        call.fp.plugin_check_fp[t] # "None"}

EveryValidatorReturned ==
    Len(call.out.trace) = Cardinality(PluginsTakingPart) + (IF CoreTakesPart THEN 1 ELSE 0)

\* C1: in validate_asset_permissions, when any validator that is asked (the
\* core validator or a plugin validator) returns Rejected, the call fails with
\* InvalidAuthority, whatever the others return.
C1_RejectionDominates ==
    (IsAssetCall /\ "Rejected" \in Returned) => call.out.err = "InvalidAuthority"

\* C2: in both variants, when a validator returns ForceApproved and none
\* returns Rejected, the call succeeds.
C2_ForceApprovedSucceeds ==
    (IsPermissionCall /\ "ForceApproved" \in Returned /\ "Rejected" \notin Returned)
        => call.out.err = ""

\* C3: both variants succeed only if a validator that was asked returned
\* Approved or ForceApproved; when every validator that takes part returned
\* Pass, or none takes part, the call fails with InvalidAuthority; a
\* successful call returns the object, header and registry as fetched.
C3_ApprovalNeeded ==
    IsPermissionCall =>
        /\ call.out.err = "" =>
               /\ Returned \cap {"Approved", "ForceApproved"} # {}
               /\ call.out.ret =
                      LET f == IF IsAssetCall
                               THEN call.fetched.asset
                               ELSE call.fetched.collection
                      IN  <<f.asset, f.header, f.registry>>
        /\ (EveryValidatorReturned /\ Returned \subseteq {"Pass"})
               => call.out.err = "InvalidAuthority"

C3_Witness ==
    /\ IsAssetCall
    /\ Len(call.out.trace) >= 2
    /\ EveryValidatorReturned
    /\ Returned = {"Pass"}
    /\ call.out.err = "InvalidAuthority"

\* The registry record of plugin type t in a fetched registry.
RecordOf(fetched, t) ==
    LET r == fetched.registry.registry
    IN  r[CHOOSE i \in DOMAIN r : r[i].plugin_type = t]

\* C4: in validate_asset_permissions, a plugin type that takes part and is
\* registered on the collection and on the asset has one entry in the merged
\* map, the asset's (its key, its record, its authority), and the
\* collection's plugin of that type is never validated.
C4_AssetShadowsCollection ==
    IsAssetCall =>
        \A t \in AssetTypes \cap CollectionTypes :
            call.fp.plugin_check_fp[t] # "None" =>
                /\ t \in DOMAIN call.out.checks
                /\ call.out.checks[t].key = KeyAsset
                /\ call.out.checks[t].record =
                       RecordOf(call.fetched.asset, t)
                /\ \A i \in DOMAIN call.out.trace :
                       call.out.trace[i].plugin_type = t =>
                           /\ call.out.trace[i].key = KeyAsset
                           /\ call.out.trace[i].record.authority = AuthOwner

C4_Witness ==
    /\ IsAssetCall
    /\ \E t \in AssetTypes \cap CollectionTypes :
           /\ call.fp.plugin_check_fp[t] = "CanReject"
           /\ \E i \in DOMAIN call.out.trace :
                  /\ call.out.trace[i].plugin_type = t
                  /\ call.out.trace[i].key = KeyAsset
                  /\ call.out.trace[i].record #
                         RecordOf(call.fetched.collection, t)

\* C5: the core check of validate_asset_permissions is the asset's, with the
\* asset level result, when that result is not None, and otherwise the
\* collection's with the collection level result; the core validator asked is
\* the one of that cell, and the call never ends with IncorrectAccount.
C5_CoreCheckAttribution ==
    IsAssetCall =>
        /\ call.fp.asset_check_fp # "None" =>
               call.out.core_check = [key |-> KeyAsset, check |-> call.fp.asset_check_fp]
        /\ call.fp.asset_check_fp = "None" =>
               call.out.core_check =
                   [key |-> KeyCollection, check |-> call.fp.collection_check_fp]
        /\ call.out.core_check.key \in {KeyAsset, KeyCollection}
        /\ \A i \in DOMAIN call.out.trace :
               call.out.trace[i].plugin_type = 0 =>
                   call.out.trace[i].key = call.out.core_check.key
        /\ call.out.err # "IncorrectAccount"

C5_Witness ==
    /\ IsAssetCall
    /\ call.fp.asset_check_fp = "None"
    /\ call.fp.collection_check_fp = "CanReject"
    /\ call.out.trace # <<>>
    /\ call.out.trace[1] = Invoked(KeyCollection, 0, NoRecord, "Approved")
    /\ call.out.err = ""

\* C6: for the same checks and the same verdicts on a collection's own
\* registry, validate_collection_permissions and validate_asset_permissions
\* (on an asset without plugins under that collection, the asset level check
\* being None) reach the same decision.
C6_VariantsAgree ==
    IsCollectionCall =>
        ((validate_asset_permissions(PermAssetCell(<<>>), TRUE, collection_data,
                                     call.fp).err = "")
            <=> (call.out.err = ""))

\* The trace of the last call: who was asked, in the order they were asked.
Trace == call.out.trace

\* The place of an evaluation in the fixed order: the core validator, the
\* collection's plugins, the asset's plugins.
Rank(e) == IF e.plugin_type = 0 THEN 0 ELSE IF e.key = KeyCollection THEN 1 ELSE 2

\* An evaluation that records an approval: the core validator with Approved,
\* a plugin validator with Approved or ForceApproved.
RecordsApproval(e) ==
    IF e.plugin_type = 0 THEN e.verdict = "Approved"
    ELSE e.verdict \in {"Approved", "ForceApproved"}

PluginRejects(e) == e.plugin_type # 0 /\ e.verdict = "Rejected"

\* C13: validate_asset_permissions asks the core validator, then the merged
\* entries of the collection, then the merged entries of the asset, each
\* entry once and under the cell it was merged from; an approval that was
\* recorded stands unless a plugin entry rejects; and an entry that rejects
\* is the last one asked and fails the call with InvalidAuthority.
C13_FixedOrder ==
    IsAssetCall =>
        /\ \A i, j \in DOMAIN Trace :
               i < j => /\ Rank(Trace[i]) <= Rank(Trace[j])
                        /\ Trace[i].plugin_type # Trace[j].plugin_type
        /\ \A i \in DOMAIN Trace :
               /\ Trace[i].plugin_type # 0 =>
                      /\ Trace[i].plugin_type \in DOMAIN call.out.checks
                      /\ Trace[i].key = call.out.checks[Trace[i].plugin_type].key
               /\ PluginRejects(Trace[i]) =>
                      i = Len(Trace) /\ call.out.err = "InvalidAuthority"
        /\ (\A i \in DOMAIN Trace : ~PluginRejects(Trace[i])) =>
               /\ call.out.err \in {"", "InvalidAuthority", "InvalidCollection"}
               /\ call.out.err # "InvalidCollection" => EveryValidatorReturned
               /\ (\E i \in DOMAIN Trace : RecordsApproval(Trace[i])) =>
                      call.out.err = ""

C13_Witness ==
    /\ IsAssetCall
    /\ Len(Trace) = 2
    /\ Trace[1].plugin_type = 0 /\ Trace[1].verdict = "Approved"
    /\ Rank(Trace[2]) = 1 /\ Trace[2].verdict = "Rejected"
    /\ \E t \in DOMAIN call.out.checks : call.out.checks[t].key = KeyAsset
    /\ call.out.err = "InvalidAuthority"

\* C14: validate_asset_permissions without a collection cell fails with
\* InvalidCollection, no validator asked, when the asset-level check is None
\* and the collection-level check is CanApprove or CanReject; when both are
\* None the missing cell is no error.
C14_MissingCollection ==
    (IsAssetCall /\ ~call.has_collection /\ call.fp.asset_check_fp = "None") =>
        IF call.fp.collection_check_fp \in {"CanApprove", "CanReject"}
        THEN call.out.err = "InvalidCollection" /\ Trace = <<>>
        ELSE /\ call.out.err \in {"", "InvalidAuthority"}
             /\ call.out.err = "" <=>
                    ("Rejected" \notin Returned
                        /\ \E i \in DOMAIN Trace : RecordsApproval(Trace[i]))

C14_Witness ==
    /\ IsAssetCall
    /\ ~call.has_collection
    /\ call.fp.asset_check_fp = "None"
    /\ call.fp.collection_check_fp = "CanReject"
    /\ \E t \in PluginsTakingPart : call.fp.plugin_validate_fp[t] = "Approved"
    /\ call.out.err = "InvalidCollection"

(***************************************************************************)
(* Properties of the compression engine.                                   *)
(***************************************************************************)
IsVerifyCall == call.op = "verify_proof"
IsRebuildCall == call.op = "rebuild_account_state_from_proof_data"

\* The caller supplied the proof compress returned, unchanged.
ExactProof == supplied = proof

\* What the cell held before compress: the asset and its registry.
Original == fetch_core_data_asset(pre_data)

\* The digest the compressed cell holds.
Committed == At(asset_data, 1)

\* C7: verify_proof on the compressed cell with the proof compress returned
\* succeeds; it returns the asset that was compressed and its plugins with
\* their authorities, by ascending registry position, and the digest it
\* recomputes is the digest compress stored.
C7_RoundTrip ==
    (IsVerifyCall /\ ExactProof) =>
        /\ call.out.err = ""
        /\ call.out.asset = Original.asset
        /\ Len(call.out.plugins) = Len(Original.registry.registry)
        /\ \A i \in DOMAIN call.out.plugins :
               /\ call.out.plugins[i].index = i - 1
               /\ call.out.plugins[i].authority = Original.registry.registry[i].authority
               /\ call.out.plugins[i].plugin.type =
                      Original.registry.registry[i].plugin_type
               /\ SerPlugin(call.out.plugins[i].plugin) =
                      SubSeq(pre_data, Original.registry.registry[i].offset + 1,
                             Original.registry.registry[i].offset + 2)
        /\ call.out.digest = Committed

C7_Witness ==
    /\ IsVerifyCall
    /\ ExactProof
    /\ call.out.err = ""
    /\ Len(call.out.plugins) = NumPluginTypes
    /\ call.out.plugins[1].plugin.type > call.out.plugins[2].plugin.type
    /\ call.out.asset.name # <<>>

\* C8: a proof that is not the returned proof up to the order of its plugins
\* (its asset or one of its plugins differs) makes verify_proof recompute
\* another digest and fail with IncorrectAssetHash; verify_proof succeeds
\* only when the digest it recomputes is the digest in the cell.
C8_TamperSensitive ==
    IsVerifyCall =>
        /\ supplied.val \notin Reordered(proof.val) =>
               /\ call.out.err = "IncorrectAssetHash"
               /\ call.out.digest # Committed
        /\ call.out.err = "" => call.out.digest = Committed

C8_Witness ==
    /\ IsVerifyCall
    /\ call.out.err = "IncorrectAssetHash"
    /\ Len(supplied.val.plugins) = NumPluginTypes
    /\ AssetFromProof(supplied.val) = AssetFromProof(proof.val)
    /\ \E i \in DOMAIN proof.val.plugins :
           /\ supplied.val.plugins[i].plugin.data # proof.val.plugins[i].plugin.data
           /\ supplied.val.plugins =
                  [proof.val.plugins EXCEPT
                      ![i].plugin.data = supplied.val.plugins[i].plugin.data]

\* C9: verify_proof gives the same outcome for every order of a proof's
\* plugins and, when it succeeds, the same plugins by ascending index.
C9_OrderIndependent ==
    IsVerifyCall =>
        \A q \in Reordered(supplied.val) :
            /\ verify_proof(asset_data, q).err = call.out.err
            /\ call.out.err \in {"", "IncorrectAssetHash"}
            /\ call.out.err = "" =>
                   /\ verify_proof(asset_data, q).plugins = call.out.plugins
                   /\ \A i, j \in DOMAIN call.out.plugins :
                          i < j => call.out.plugins[i].index < call.out.plugins[j].index

C9_Witness ==
    /\ IsVerifyCall
    /\ call.out.err = ""
    /\ Len(supplied.val.plugins) = NumPluginTypes
    /\ supplied.val.plugins[1].index > supplied.val.plugins[2].index

\* C10: an asset without plugins that is compressed and then rebuilt from the
\* proof compress returned leaves the cell with the length and the words it
\* had before compress.
C10_RebuildRestoresCell ==
    (IsRebuildCall /\ call.out.err = "" /\ ExactProof /\ proof.val.plugins = <<>>) =>
        /\ Len(asset_data) = Len(pre_data)
        /\ asset_data = pre_data

C10_Witness ==
    /\ IsRebuildCall
    /\ call.out.err = ""
    /\ ExactProof
    /\ proof.val.plugins = <<>>
    /\ proof.val.name # <<>>
    /\ proof.val.update_authority.kind = "Collection"
    /\ asset_data = pre_data

(***************************************************************************)
(* The authority model: resolve_to_authority, assert_authority,            *)
(* assert_collection_authority and PermanentBurn::validate_burn.           *)
(***************************************************************************)
\* Pubkey::default(), the key UpdateAuthority::None stands for.
DefaultPubkey == 0

\* The keys a caller can have.
Callers == Addresses \cup {DefaultPubkey}

\* UpdateAuthority::key
UpdateAuthorityKey(u) == u.address

\* An optional account: its key and its data.
NoAccount == [some |-> FALSE, key |-> DefaultPubkey, data |-> <<>>]
SomeAccount(key, data) == [some |-> TRUE, key |-> key, data |-> data]

Resolved(authority) == [err |-> "", ret |-> authority]
Unresolved(err) == [err |-> err, ret |-> AuthNone]

\* The delegated branch of resolve_to_authority.
ResolveViaCollection(caller, maybe_collection_info, collection_address) ==
    IF ~maybe_collection_info.some THEN Unresolved("InvalidCollection")
    ELSE IF maybe_collection_info.key # collection_address
    THEN Unresolved("InvalidCollection")
    ELSE LET collection == LoadCollection(maybe_collection_info.data, 0) IN
         IF collection.err # "" THEN Unresolved(collection.err)
         ELSE IF caller = collection.val.update_authority
         THEN Resolved(AuthUpdateAuthority)
         ELSE Resolved(AuthPubkey(caller))

ResolveUpdateAuthorityFirst(caller, maybe_collection_info, asset) ==
    IF asset.update_authority = UaAddress(caller) THEN Resolved(AuthUpdateAuthority)
    ELSE IF caller = asset.owner THEN Resolved(AuthOwner)
    ELSE IF asset.update_authority.kind = "Collection"
    THEN ResolveViaCollection(caller, maybe_collection_info,
                              asset.update_authority.address)
    ELSE Resolved(AuthPubkey(caller))

resolve_to_authority(caller, maybe_collection_info, asset) ==
    IF caller = asset.owner THEN Resolved(AuthOwner)
    ELSE IF asset.update_authority = UaAddress(caller) THEN Resolved(AuthUpdateAuthority)
    ELSE IF asset.update_authority.kind = "Collection"
    THEN ResolveViaCollection(caller, maybe_collection_info,
                              asset.update_authority.address)
    ELSE Resolved(AuthPubkey(caller))

(***************************************************************************)
(* Scenarios of the authority model: an asset without plugins, and for its *)
(* parent either no cell, a collection, or a cell that was closed.         *)
(***************************************************************************)
ClosedCell == <<KeyUninitialized>>

AuthCollectionCells ==
    {NoCell, ClosedCell} \cup {SerCollection(c) : c \in Collection}

InitAuth ==
    /\ asset_data \in {SerAsset(a) : a \in Asset}
    /\ collection_data \in AuthCollectionCells
    /\ asset_lamports = 0
    /\ payer_lamports = 0
    /\ proof = NoProof
    /\ supplied = NoProof
    /\ pre_data = <<>>
    /\ call = NoCall

\* The collection account a caller hands in: none, or collection_data under
\* a key of the caller's choice.
CollectionAccounts ==
    IF Supplied(collection_data)
    THEN {SomeAccount(k, collection_data) : k \in Addresses}
    ELSE {NoAccount}

ResolveToAuthority ==
    /\ call.op = "none"
    /\ LoadAsset(asset_data, 0).err = ""
    /\ \E caller \in Callers, maybe_collection_info \in CollectionAccounts :
          call' = [op |-> "resolve_to_authority", caller |-> caller,
                   collection |-> maybe_collection_info,
                   out |-> resolve_to_authority(caller, maybe_collection_info,
                                                LoadAsset(asset_data, 0).val)]
    /\ UNCHANGED <<asset_data, collection_data, asset_lamports, payer_lamports,
                   proof, supplied, pre_data>>

\* assert_authority, on an Asset.
AssertAuthorityWithoutPermanent(asset, caller, authorities) ==
    IF \/ authorities.kind = "Owner" /\ asset.owner = caller
       \/ authorities.kind = "UpdateAuthority"
             /\ UpdateAuthorityKey(asset.update_authority) = caller
       \/ authorities.kind = "Pubkey" /\ caller = authorities.address
    THEN "" ELSE "InvalidAuthority"

assert_authority(asset, caller, authorities) ==
    CASE authorities.kind = "None" -> "InvalidAuthority"
      [] authorities.kind = "Owner" ->
             IF asset.owner = caller THEN "" ELSE "InvalidAuthority"
      [] authorities.kind = "UpdateAuthority" ->
             IF UpdateAuthorityKey(asset.update_authority) = caller
             THEN "" ELSE "InvalidAuthority"
      [] authorities.kind = "Pubkey" ->
             IF caller = authorities.address THEN "" ELSE "InvalidAuthority"
      [] authorities.kind = "Permanent" ->
             IF caller = authorities.address THEN "" ELSE "InvalidAuthority"

\* assert_collection_authority
assert_collection_authority(collection, caller, authority) ==
    CASE authority.kind \in {"None", "Owner"} -> "InvalidAuthority"
      [] authority.kind = "UpdateAuthority" ->
             IF collection.update_authority = caller THEN "" ELSE "InvalidAuthority"
      [] authority.kind = "Pubkey" ->
             IF caller = authority.address THEN "" ELSE "InvalidAuthority"
      [] authority.kind = "Permanent" ->
             IF caller = authority.address THEN "" ELSE "InvalidAuthority"

\* PermanentBurn::validate_burn
NoAuthority == [some |-> FALSE, val |-> AuthNone]
SomeAuthority(a) == [some |-> TRUE, val |-> a]

ValidateBurnKindOnly(authorities, resolved_authority) ==
    IF resolved_authority.some /\ resolved_authority.val.kind = authorities.kind
    THEN "ForceApproved" ELSE "Pass"

validate_burn(authorities, resolved_authority) ==
    IF resolved_authority.some /\ resolved_authority.val = authorities
    THEN "ForceApproved" ELSE "Pass"

AssertAuthority ==
    /\ call.op = "none"
    /\ LoadAsset(asset_data, 0).err = ""
    /\ \E caller \in Callers, authorities \in Authority :
          call' = [op |-> "assert_authority", caller |-> caller,
                   authorities |-> authorities,
                   out |-> [err |-> assert_authority(LoadAsset(asset_data, 0).val,
                                                     caller, authorities)]]
    /\ UNCHANGED <<asset_data, collection_data, asset_lamports, payer_lamports,
                   proof, supplied, pre_data>>

AssertCollectionAuthority ==
    /\ call.op = "none"
    /\ LoadCollection(collection_data, 0).err = ""
    /\ \E caller \in Callers, authority \in Authority :
          call' = [op |-> "assert_collection_authority", caller |-> caller,
                   authorities |-> authority,
                   out |-> [err |-> assert_collection_authority(
                                        LoadCollection(collection_data, 0).val,
                                        caller, authority)]]
    /\ UNCHANGED <<asset_data, collection_data, asset_lamports, payer_lamports,
                   proof, supplied, pre_data>>

\* The burn instruction asks the PermanentBurn plugin: the resolved authority
\* is what resolve_to_authority returned, or is not supplied.
Burners(resolved) ==
    \E authorities \in Authority,
       resolved_authority \in {NoAuthority, SomeAuthority(resolved)} :
          call' = [op |-> "validate_burn", authorities |-> authorities,
                   resolved_authority |-> resolved_authority,
                   out |-> [ret |-> validate_burn(authorities, resolved_authority)]]

ValidateBurn ==
    /\ call.op = "resolve_to_authority"
    /\ call.out.err = ""
    /\ Burners(call.out.ret)
    /\ UNCHANGED <<asset_data, collection_data, asset_lamports, payer_lamports,
                   proof, supplied, pre_data>>

NextAuth ==
    ResolveToAuthority \/ AssertAuthority \/ AssertCollectionAuthority \/ ValidateBurn

SpecAuth == InitAuth /\ [][NextAuth]_vars

(***************************************************************************)
(* Properties of the authority model.                                      *)
(***************************************************************************)
IsResolveCall == call.op = "resolve_to_authority"
IsAssertCall == call.op \in {"assert_authority", "assert_collection_authority"}
IsBurnCall == call.op = "validate_burn"

\* The asset and the collection the calls of this scenario read.
TheAsset == LoadAsset(asset_data, 0).val
TheCollection == LoadCollection(collection_data, 0).val

Delegated == TheAsset.update_authority.kind = "Collection"

\* The supplied collection account is the asset's recorded parent.
ParentSupplied ==
    call.collection.some /\ call.collection.key = TheAsset.update_authority.address

ParentLoads == LoadCollection(collection_data, 0).err = ""

\* The caller is the update authority, the asset's own or its parent's.
IsUpdateAuthority ==
    \/ TheAsset.update_authority = UaAddress(call.caller)
    \/ Delegated /\ ParentSupplied /\ ParentLoads
          /\ call.caller = TheCollection.update_authority

\* The priority Owner, UpdateAuthority, Pubkey{caller}, and the one case of
\* InvalidCollection.
ResolvePriority ==
    /\ call.caller = TheAsset.owner => call.out = Resolved(AuthOwner)
    /\ (call.caller # TheAsset.owner /\ IsUpdateAuthority) =>
           call.out = Resolved(AuthUpdateAuthority)
    /\ (call.out.err = "" /\ call.caller # TheAsset.owner /\ ~IsUpdateAuthority) =>
           call.out.ret = AuthPubkey(call.caller)
    /\ call.out.err = "InvalidCollection" <=>
           (call.caller # TheAsset.owner /\ Delegated /\ ~ParentSupplied)

\* C11 as stated: resolve_to_authority follows the priority Owner,
\* UpdateAuthority (own or through the parent), Pubkey{caller}, and every
\* input gives one of these or InvalidCollection.
C11_ResolveTotal ==
    IsResolveCall =>
        /\ ResolvePriority
        /\ call.out.err \in {"", "InvalidCollection"}

\* C11: resolve_to_authority follows the priority Owner, UpdateAuthority (own
\* or through the parent), Pubkey{caller}; it fails with InvalidCollection
\* exactly when the caller is not the owner, the update authority is
\* delegated and the parent is missing or has another address; and it fails
\* with the load's error exactly when the caller is not the owner, the
\* update authority is delegated, and the cell supplied under the parent's
\* address does not load as a Collection.
C11_ResolvePriority ==
    IsResolveCall =>
        /\ ResolvePriority
        /\ call.out.err \notin {"", "InvalidCollection"} <=>
               (call.caller # TheAsset.owner /\ Delegated /\ ParentSupplied
                   /\ ~ParentLoads)
        /\ call.out.err \in {"", "InvalidCollection", "DeserializationError"}

C11_Witness ==
    /\ IsResolveCall
    /\ call.caller # TheAsset.owner
    /\ Delegated /\ ParentSupplied /\ ParentLoads
    /\ call.caller = TheCollection.update_authority
    /\ call.out = Resolved(AuthUpdateAuthority)

\* C12: assert_authority and assert_collection_authority return ok or
\* InvalidAuthority; None never matches, Pubkey and Permanent match exactly
\* their address, Owner matches exactly the owner of an Asset and never on a
\* Collection, UpdateAuthority matches exactly the object's update-authority
\* key.
C12_AssertMatches ==
    IsAssertCall =>
        /\ call.out.err \in {"", "InvalidAuthority"}
        /\ call.authorities.kind = "None" => call.out.err # ""
        /\ call.authorities.kind \in {"Pubkey", "Permanent"} =>
               (call.out.err = "" <=> call.caller = call.authorities.address)
        /\ call.authorities.kind = "Owner" =>
               (call.out.err = "" <=>
                   (call.op = "assert_authority" /\ call.caller = TheAsset.owner))
        /\ call.authorities.kind = "UpdateAuthority" =>
               (call.out.err = "" <=>
                   call.caller =
                       (IF call.op = "assert_authority"
                        THEN TheAsset.update_authority.address
                        ELSE TheCollection.update_authority))

C12_Witness ==
    /\ call.op = "assert_authority"
    /\ call.authorities = AuthPermanent(call.caller)
    /\ call.caller # TheAsset.owner
    /\ call.out.err = ""

\* C16: validate_burn returns ForceApproved exactly when a resolved authority
\* is supplied and equals the plugin's authority, variant and address, and
\* Pass otherwise; it never returns Rejected or Approved.
C16_PermanentBurn ==
    IsBurnCall =>
        /\ call.out.ret \in {"ForceApproved", "Pass"}
        /\ call.out.ret = "ForceApproved" <=>
               /\ call.resolved_authority.some
               /\ call.resolved_authority.val.kind = call.authorities.kind
               /\ call.resolved_authority.val.address = call.authorities.address

C16_Witness ==
    /\ IsBurnCall
    /\ call.resolved_authority.some
    /\ call.resolved_authority.val.kind = "Pubkey"
    /\ call.authorities.kind = "Pubkey"
    /\ call.authorities.address # call.resolved_authority.val.address
    /\ call.out.ret = "Pass"

(***************************************************************************)
(* Deposits: resize_or_reallocate_account and close_program_account on a   *)
(* cell and the account that funds it or receives its deposit.             *)
(***************************************************************************)
\* The largest balance (u64::MAX in the program; a smaller word here).
MaxLamports == 65535

\* What a cell may hold beyond its minimum deposit.
Overage == 7

\* close_program_account.  `payer` of the account state is the destination.
CloseWithoutMarker(acc, fill) ==
    LET account_rent == minimum_balance(Len(acc.data))
        one_byte_rent == minimum_balance(1)
    IN
    IF account_rent < one_byte_rent \/ acc.payer + (account_rent - one_byte_rent) > MaxLamports
    THEN [acc EXCEPT !.err = "NumericalOverflowError"]
    ELSE [data |-> Realloc(acc.data, 1, fill),
          lamports |-> acc.lamports - (account_rent - one_byte_rent),
          payer |-> acc.payer + (account_rent - one_byte_rent), err |-> ""]

close_program_account(acc, fill) ==
    LET account_rent == minimum_balance(Len(acc.data))
        one_byte_rent == minimum_balance(1)
    IN
    IF account_rent < one_byte_rent
    THEN [acc EXCEPT !.err = "NumericalOverflowError"]
    ELSE LET amount_to_return == account_rent - one_byte_rent IN
         IF acc.payer + amount_to_return > MaxLamports
         THEN [acc EXCEPT !.err = "NumericalOverflowError"]
         ELSE [data |-> [Realloc(acc.data, 1, fill) EXCEPT ![1] = KeyUninitialized],
               lamports |-> acc.lamports - amount_to_return,
               payer |-> acc.payer + amount_to_return, err |-> ""]

\* Cells of several sizes: empty, closed, assets without and with plugins,
\* and a compressed asset.  A cell holds at least its minimum deposit.
RentCells ==
    {NoCell, ClosedCell, SerHashedAsset([key |-> KeyHashedAsset, hash |-> 0])}
        \cup {SerAsset(a) : a \in Asset}
        \cup {MkCell(SerAsset(a), ps) : a \in CompAssetsWithPlugins, ps \in CompPluginLists}

InitRent ==
    /\ asset_data \in RentCells
    /\ asset_lamports \in {minimum_balance(Len(asset_data)),
                           minimum_balance(Len(asset_data)) + Overage}
    /\ payer_lamports \in {0, Overage, MaxLamports - Overage}
    /\ collection_data = NoCell
    /\ proof = NoProof
    /\ supplied = NoProof
    /\ pre_data = <<>>
    /\ call = NoCall

\* What a call on the cell leaves: the call's inputs and error recorded, the
\* cell and the balances changed only by a call that succeeds.
Settled(op, new_size, acc) ==
    /\ call' = [op |-> op, new_size |-> new_size,
                pre |-> [data |-> asset_data, lamports |-> asset_lamports,
                         payer |-> payer_lamports],
                out |-> [err |-> acc.err]]
    /\ IF acc.err = ""
       THEN /\ asset_data' = acc.data
            /\ asset_lamports' = acc.lamports
            /\ payer_lamports' = acc.payer
       ELSE UNCHANGED <<asset_data, asset_lamports, payer_lamports>>

\* resize_or_reallocate_account to any size up to two words more.  The two
\* balances together are a representable amount, so that the unchecked
\* additions of the call do not overflow.
Resize ==
    /\ call.op = "none"
    /\ asset_lamports + payer_lamports <= MaxLamports
    /\ \E new_size \in 0..(Len(asset_data) + 2), fill \in FillWords :
          Settled("resize_or_reallocate_account", new_size,
                  resize_or_reallocate_account(
                      Account(asset_data, asset_lamports, payer_lamports),
                      new_size, fill))
    /\ UNCHANGED <<collection_data, proof, supplied, pre_data>>

Close ==
    /\ call.op = "none"
    /\ \E fill \in FillWords :
          Settled("close_program_account", 1,
                  close_program_account(
                      Account(asset_data, asset_lamports, payer_lamports), fill))
    /\ UNCHANGED <<collection_data, proof, supplied, pre_data>>

NextRent == Resize \/ Close

SpecRent == InitRent /\ [][NextRent]_vars

\* Every operation of the model, from every scenario.
Init == InitPerm \/ InitComp \/ InitAuth \/ InitRent
Next == NextPerm \/ NextComp \/ NextAuth \/ NextRent
Spec == Init /\ [][Next]_vars

(***************************************************************************)
(* Properties of the deposits.                                             *)
(***************************************************************************)
IsResizeCall == call.op = "resize_or_reallocate_account"
IsCloseCall == call.op = "close_program_account"

\* The minimum deposits for the size asked for and for the size the cell had.
NewMinimum == minimum_balance(call.new_size)
OldMinimum == minimum_balance(Len(call.pre.data))

SumUnchanged ==
    asset_lamports + payer_lamports = call.pre.lamports + call.pre.payer

NothingChanged ==
    /\ asset_data = call.pre.data
    /\ asset_lamports = call.pre.lamports
    /\ payer_lamports = call.pre.payer

\* C15 as stated: the new minimum deposit is compared with what the cell
\* holds; when it is more the funder pays the cell, when it is less the
\* funder gets the excess; the two balances keep their sum and the cell ends
\* with the new minimum deposit or more.
C15_RebalanceToHeld ==
    (IsResizeCall /\ call.out.err = "") =>
        /\ NewMinimum > call.pre.lamports =>
               asset_lamports > call.pre.lamports /\ payer_lamports < call.pre.payer
        /\ NewMinimum < call.pre.lamports =>
               asset_lamports < call.pre.lamports /\ payer_lamports > call.pre.payer
        /\ SumUnchanged
        /\ asset_lamports >= NewMinimum

\* C15: resize_or_reallocate_account compares the minimum deposit for the new
\* size with the minimum deposit for the size the cell has: when it is not
\* less, the funder pays the cell the difference before the resize (a funder
\* that cannot pay fails the call and nothing changes), when it is less the
\* cell returns the difference to the funder; what the cell holds beyond its
\* minimum deposit stays with it; the two balances keep their sum, the cell
\* gets the new size and ends with the new minimum deposit or more.
C15_Rebalance ==
    IsResizeCall =>
        IF call.out.err = ""
        THEN /\ asset_lamports - call.pre.lamports = NewMinimum - OldMinimum
             /\ call.pre.payer - payer_lamports = NewMinimum - OldMinimum
             /\ SumUnchanged
             /\ Len(asset_data) = call.new_size
             /\ asset_lamports >= NewMinimum
             /\ asset_lamports - NewMinimum = call.pre.lamports - OldMinimum
        ELSE /\ NothingChanged
             /\ NewMinimum - OldMinimum > call.pre.payer

C15_Witness ==
    /\ IsResizeCall
    /\ call.out.err = ""
    /\ call.pre.lamports = OldMinimum + Overage
    /\ NewMinimum > OldMinimum
    /\ NewMinimum < call.pre.lamports
    /\ payer_lamports < call.pre.payer

\* C17: close_program_account that succeeds leaves a cell of length 1 holding
\* the Uninitialized discriminant, the destination richer and the cell poorer
\* by minimum_balance(old size) - minimum_balance(1); when that difference
\* underflows or the destination's balance would overflow, the call fails
\* with NumericalOverflowError and the balances and the cell are unchanged.
C17_CloseReleases ==
    IsCloseCall =>
        /\ call.out.err \in {"", "NumericalOverflowError"}
        /\ call.out.err = "NumericalOverflowError" <=>
               \/ OldMinimum < minimum_balance(1)
               \/ call.pre.payer + (OldMinimum - minimum_balance(1)) > MaxLamports
        /\ call.out.err = "" =>
               /\ asset_data = <<KeyUninitialized>>
               /\ payer_lamports - call.pre.payer = OldMinimum - minimum_balance(1)
               /\ call.pre.lamports - asset_lamports = OldMinimum - minimum_balance(1)
        /\ call.out.err # "" => NothingChanged

C17_Witness ==
    /\ IsCloseCall
    /\ call.out.err = ""
    /\ Len(call.pre.data) > 4
    /\ call.pre.data[1] = KeyAsset
    /\ payer_lamports > call.pre.payer

C17_OverflowWitness ==
    /\ IsCloseCall
    /\ call.out.err = "NumericalOverflowError"
    /\ OldMinimum > minimum_balance(1)
    /\ NothingChanged

C17_UnderflowWitness ==
    /\ IsCloseCall
    /\ call.out.err = "NumericalOverflowError"
    /\ call.pre.data = <<>>

=============================================================================
